---------------------------- MODULE Spec2Model ----------------------------
(***************************************************************************)
(* Style transfer with a VGG-11 network (style_transfer notebook).         *)
(*                                                                         *)
(* The notebook is modelled as five state machines that share one set of   *)
(* variables:                                                              *)
(*   SpecGram  gram_matrix applied to a feature tensor                      *)
(*   SpecLoad  load_image's choice of size and the resize it asks for      *)
(*   SpecFeat  one forward pass of get_features, stage by stage            *)
(*   SpecLoss  get_total_loss: content loss, then the style-layer loop     *)
(*   SpecRun   the notebook's run: loading, caching, the optimization loop *)
(* Floating-point tensors are modelled with exact integers and rationals.  *)
(***************************************************************************)
EXTENDS Integers, Sequences, FiniteSets, TLC

VARIABLES
    g_tensor, g_gram, g_pc,          \* SpecGram: argument, result, position
    l_size, l_max_size, l_shape,     \* SpecLoad: PIL size (w, h), arguments
    l_image, l_pc,                   \*           returned tensor's shape
    f_image,                         \* SpecFeat: get_features' image argument
    f_heap, f_im, f_features,        \*   tensor objects, im, features
    f_pos, f_log, f_pc,              \*   loop index, stages applied so far
    s_shape,                         \* SpecLoss: shape of the feature tensors
    s_content_loss, s_style_loss,    \*   get_total_loss' locals
    s_total_loss,                    \*   the returned loss
    s_layer, s_terms, s_matched,     \*   style loop index; what was read so far
    s_pc,
    r_cfg,                           \* SpecRun: files, backbone, hyper parameters
    r_content_image, r_style_image,  \*   the loaded tensors
    r_content_features, r_style_features, r_style_gram,
    r_result_image, r_grad, r_optimizer,
    r_result_features, r_total_loss, \*   the loop's locals
    r_ii, r_pc, r_error,             \*   loop variable, position, exception
    r_out,                           \*   what was printed and shown
    r_count,                         \*   forward passes, losses and steps so far
    r_gram_calls,                    \*   calls of gram_matrix so far, by argument
    r_vgg_weights                    \*   the backbone's parameters (one number)

gramVars == <<g_tensor, g_gram, g_pc>>

loadVars == <<l_size, l_max_size, l_shape, l_image, l_pc>>

featVars == <<f_image, f_heap, f_im, f_features, f_pos, f_log, f_pc>>

lossVars == <<s_shape, s_content_loss, s_style_loss, s_total_loss, s_layer, s_terms,
              s_matched, s_pc>>

vars == <<g_tensor, g_gram, g_pc, l_size, l_max_size, l_shape, l_image, l_pc,
          f_image, f_heap, f_im, f_features, f_pos, f_log, f_pc,
          s_shape, s_content_loss, s_style_loss, s_total_loss, s_layer, s_terms,
          s_matched, s_pc,
          r_cfg, r_content_image, r_style_image, r_content_features,
          r_style_features, r_style_gram, r_result_image, r_grad, r_optimizer,
          r_result_features, r_total_loss, r_ii, r_pc, r_error, r_out, r_count,
          r_gram_calls, r_vgg_weights>>

runVars == <<r_cfg, r_content_image, r_style_image, r_content_features,
             r_style_features, r_style_gram, r_result_image, r_grad, r_optimizer,
             r_result_features, r_total_loss, r_ii, r_pc, r_error, r_out, r_count,
             r_gram_calls, r_vgg_weights>>

notGram == <<loadVars, featVars, lossVars, runVars>>

notLoad == <<gramVars, featVars, lossVars, runVars>>

notFeat == <<gramVars, loadVars, lossVars, runVars>>

notLoss == <<gramVars, loadVars, featVars, runVars>>

notRun == <<gramVars, loadVars, featVars, lossVars>>

-----------------------------------------------------------------------------
(* Bounds of the model *)

\* largest number of elements C*H*W of a feature tensor given to gram_matrix
MaxElems == 6

\* largest side, in pixels, of an image file and largest max_size
MaxSide == 6

\* largest number of iterations of a run
MaxIterations == 2

\* largest show_every of a run
MaxShowEvery == 2

\* pixel values of an image are 0..MaxPix (one number stands for the pixels)
MaxPix == 1

\* feature tensors read by the loss functions are numbers 0..MaxSeed of the
\* enumeration FeatureSample of the tensors of a shape
MaxSeed == 4

\* the activation values a feature tensor may hold (conv outputs are signed)
Activations == {-1, 0, 1}

-----------------------------------------------------------------------------
(* Tensors: a shape (sequence of dimension sizes) and row-major data.      *)
(* ok = FALSE is the RuntimeError a torch operation raises.                *)

RECURSIVE Prod(_)
Prod(s) == IF s = <<>> THEN 1 ELSE Head(s) * Prod(Tail(s))

RECURSIVE SumSeq(_)
SumSeq(s) == IF s = <<>> THEN 0 ELSE Head(s) + SumSeq(Tail(s))

Tensor(shape, data) == [ok |-> TRUE, shape |-> shape, data |-> data]

TorchError == [ok |-> FALSE, shape |-> <<>>, data |-> <<>>]

NoTensor == [ok |-> FALSE, shape |-> <<0>>, data |-> <<>>]

\* tensor.flatten(start_dim=2): dimensions 2.. are merged, the data stays
Flatten2(t) ==
    Tensor(SubSeq(t.shape, 1, 2) \o <<Prod(SubSeq(t.shape, 3, Len(t.shape)))>>,
           t.data)

\* tensor.squeeze(): every dimension of size 1 is removed
Squeeze(t) == Tensor(SelectSeq(t.shape, LAMBDA d : d # 1), t.data)

\* tensor.T: a matrix is transposed, a vector or a scalar is returned as is
Transpose(t) ==
    IF Len(t.shape) = 2
    THEN LET r == t.shape[1]
             c == t.shape[2]
         IN Tensor(<<c, r>>,
                   [k \in 1..(r * c) |->
                       t.data[((k - 1) % r) * c + ((k - 1) \div r) + 1]])
    ELSE t

\* a.matmul(b): matrix product of two matrices, dot product of two vectors
\* (a 0-dimensional result), RuntimeError for a 0-dimensional argument
Matmul(a, b) ==
    IF Len(a.shape) = 0 \/ Len(b.shape) = 0 THEN TorchError
    ELSE IF Len(a.shape) = 1 /\ Len(b.shape) = 1
    THEN IF a.shape # b.shape THEN TorchError
         ELSE Tensor(<<>>, <<SumSeq([k \in 1..a.shape[1] |-> a.data[k] * b.data[k]])>>)
    ELSE IF Len(a.shape) = 2 /\ Len(b.shape) = 2
    THEN IF a.shape[2] # b.shape[1] THEN TorchError
         ELSE LET n == a.shape[1]
                  m == a.shape[2]
                  p == b.shape[2]
              IN Tensor(<<n, p>>,
                     [k \in 1..(n * p) |->
                        LET i == (k - 1) \div p
                            j == (k - 1) % p
                        IN SumSeq([x \in 1..m |->
                                     a.data[i * m + x] * b.data[(x - 1) * p + j + 1]])])
    ELSE TorchError

\* gram_matrix with the transpose left out of the product
gram_matrix_rowsum(tensor) ==
    LET flattened_tensor == Squeeze(Flatten2(tensor))
    IN Matmul(flattened_tensor, flattened_tensor)

\* gram_matrix(tensor)
gram_matrix(tensor) ==
    LET flattened_tensor == Squeeze(Flatten2(tensor))
    IN Matmul(flattened_tensor, Transpose(flattened_tensor))

-----------------------------------------------------------------------------
(* SpecGram: gram_matrix on every feature tensor [1, C, H, W] in bounds *)

FeatureShapes(n) ==
    {<<1, c, h, w>> : <<c, h, w>> \in
        {x \in (1..n) \X (1..n) \X (1..n) : x[1] * x[2] * x[3] <= n}}

TensorsOfShape(shape) ==
    {Tensor(shape, d) : d \in [1..Prod(shape) -> Activations]}

GramIdle ==
    /\ g_tensor = NoTensor
    /\ g_gram = NoTensor
    /\ g_pc = "idle"

GramInit ==
    /\ g_tensor \in UNION {TensorsOfShape(s) : s \in FeatureShapes(MaxElems)}
    /\ g_gram = NoTensor
    /\ g_pc = "input"

GramCall ==
    /\ g_pc = "input"
    /\ g_gram' = gram_matrix(g_tensor)
    /\ g_pc' = "returned"
    /\ UNCHANGED g_tensor
    /\ UNCHANGED notGram

GramNext == GramCall

\* channel i (0-based) of the feature tensor, flattened over its positions
Channel(t, i) ==
    LET hw == t.shape[3] * t.shape[4]
    IN [p \in 1..hw |-> t.data[i * hw + p]]

Dot(u, v) == SumSeq([k \in 1..Len(u) |-> u[k] * v[k]])


\* entry (i, j) (0-based) of a C x C matrix
Entry(m, i, j) == m.data[i * m.shape[2] + j + 1]

GramChannels == g_tensor.shape[2]

GramPositions == g_tensor.shape[3] * g_tensor.shape[4]

\* C8: for every feature tensor [1, C, H, W] gram_matrix returns a C x C
\* matrix; for C = 1 it is the 1 x 1 matrix holding the sum of squared
\* activations, and for H = W = 1 it is still C x C, not a scalar.
C8_GramIsMatrix ==
    g_pc = "returned" =>
        /\ g_gram.ok
        /\ g_gram.shape = <<GramChannels, GramChannels>>
        /\ GramChannels = 1 =>
              g_gram.data = <<Dot(Channel(g_tensor, 0), Channel(g_tensor, 0))>>

\* C9: for C >= 2 and H*W >= 2, entry (i, j) of the result is the
\* unnormalized inner product of channels i and j, so the result is
\* symmetric and an all-zero tensor gives the zero matrix.
C9_GramInnerProducts ==
    (g_pc = "returned" /\ GramChannels >= 2 /\ GramPositions >= 2) =>
        /\ g_gram.ok
        /\ g_gram.shape = <<GramChannels, GramChannels>>
        /\ \A i, j \in 0..(GramChannels - 1) :
              /\ Entry(g_gram, i, j) = Dot(Channel(g_tensor, i), Channel(g_tensor, j))
              /\ Entry(g_gram, i, j) = Entry(g_gram, j, i)
        /\ (\A k \in 1..Len(g_tensor.data) : g_tensor.data[k] = 0) =>
              \A k \in 1..Len(g_gram.data) : g_gram.data[k] = 0

C9_Witness ==
    /\ g_pc = "returned"
    /\ GramChannels >= 2
    /\ GramPositions >= 2
    /\ g_gram.ok
    /\ g_gram.shape = <<GramChannels, GramChannels>>
    /\ Entry(g_gram, 0, 1) = -1
    /\ Entry(g_gram, 0, 0) = 2


-----------------------------------------------------------------------------
(* SpecLoad: load_image(img_path, max_size, shape) *)

Max(a, b) == IF a >= b THEN a ELSE b

Min(a, b) == IF a <= b THEN a ELSE b

Abs(a) == IF a >= 0 THEN a ELSE -a

None == <<>>

\* transforms.Resize(size) on an image of PIL size (w, h), as (height, width).
\* size is <<n>> for an int and <<h, w>> for a pair: an int makes the shorter
\* side n and scales the longer side with it, int(n * long / short); a pair
\* is the output size itself
Resize(size, w, h) ==
    IF Len(size) = 1
    THEN IF w <= h
         THEN <<(size[1] * h) \div w, size[1]>>
         ELSE <<size[1], (size[1] * w) \div h>>
    ELSE <<size[1], size[2]>>

\* the size load_image hands to Resize, with the cap on max_size left out
load_size_uncapped(w, h, max_size, shape) ==
    IF shape # None THEN shape ELSE <<Max(w, h)>>

\* the size load_image hands to Resize
load_size(w, h, max_size, shape) ==
    LET size == IF Max(w, h) > max_size THEN max_size ELSE Max(w, h)
    IN IF shape # None THEN shape ELSE <<size>>

\* load_image: shape [1, 3, H, W] of the returned tensor
load_image(w, h, max_size, shape) ==
    LET hw == Resize(load_size(w, h, max_size, shape), w, h)
    IN <<1, 3, hw[1], hw[2]>>

LoadIdle ==
    /\ l_size = <<0, 0>>
    /\ l_max_size = 0
    /\ l_shape = None
    /\ l_image = <<>>
    /\ l_pc = "idle"

LoadInit ==
    /\ l_size \in (1..MaxSide) \X (1..MaxSide)
    /\ l_max_size \in 1..MaxSide
    /\ l_shape \in {None} \cup ((1..2) \X (1..2))
    /\ l_image = <<>>
    /\ l_pc = "input"

LoadCall ==
    /\ l_pc = "input"
    /\ l_image' = load_image(l_size[1], l_size[2], l_max_size, l_shape)
    /\ l_pc' = "returned"
    /\ UNCHANGED <<l_size, l_max_size, l_shape>>
    /\ UNCHANGED notLoad

LoadNext == LoadCall

\* C10: without an explicit shape, the smaller spatial side of the returned
\* tensor is <= max_size and its height:width ratio is the source image's
\* up to integer rounding (H * w and W * h differ by less than the source's
\* shorter side, and the shorter side stays the shorter side).
C10_ContentResize ==
    (l_pc = "returned" /\ l_shape = None) =>
        LET w == l_size[1]
            h == l_size[2]
            H == l_image[3]
            W == l_image[4]
        IN /\ Min(H, W) <= l_max_size
           /\ Abs(H * w - W * h) < Min(w, h)
           /\ w <= h => W <= H
           /\ h <= w => H <= W

C10_Witness ==
    /\ l_pc = "returned"
    /\ l_shape = None
    /\ l_size = <<6, 4>>
    /\ l_max_size = 2
    /\ l_image = <<1, 3, 2, 3>>

-----------------------------------------------------------------------------
(* SpecFeat: get_features(image, model), one stage of the backbone a step. *)
(* A tensor value is the image it was computed from (pix), the stages      *)
(* applied to it so far (ops) and its shape; tensor objects live in a heap *)
(* because ReLU(inplace=True) changes the object it is given.              *)

Conv(n, out) == [name |-> n, kind |-> "conv", out |-> out]

ReLU(n) == [name |-> n, kind |-> "relu", out |-> 0]

MaxPool(n) == [name |-> n, kind |-> "pool", out |-> 0]

\* vgg = models.vgg11(pretrained=True).features, as the notebook prints it
vgg ==
    << Conv(0, 64), ReLU(1), MaxPool(2),
       Conv(3, 128), ReLU(4), MaxPool(5),
       Conv(6, 256), ReLU(7), Conv(8, 256), ReLU(9), MaxPool(10),
       Conv(11, 512), ReLU(12), Conv(13, 512), ReLU(14), MaxPool(15),
       Conv(16, 512), ReLU(17), Conv(18, 512), ReLU(19), MaxPool(20) >>

\* the tap map with stage 13 given the name of stage 11
layers_duplicate_name ==
    (0 :> "conv1_1") @@ (3 :> "conv2_1") @@ (6 :> "conv3_1") @@
    (11 :> "conv4_1") @@ (13 :> "conv4_1") @@ (16 :> "conv5_1")

\* layers: the stages get_features records, and the names it records them by
layers ==
    (0 :> "conv1_1") @@ (3 :> "conv2_1") @@ (6 :> "conv3_1") @@
    (11 :> "conv4_1") @@ (13 :> "conv4_2") @@ (16 :> "conv5_1")

\* sides, in pixels, of the images given to the backbone (five poolings
\* by 2 need at least 32)
ImageSides == {32, 48}

Images ==
    {[pix |-> p, ops |-> <<>>, shape |-> <<1, 3, h, w>>] :
        p \in 0..MaxPix, h \in ImageSides, w \in ImageSides}

\* the value layer(x) computes from the value x
StageValue(stage, x) ==
    [pix |-> x.pix,
     ops |-> Append(x.ops, stage.name),
     shape |-> CASE stage.kind = "conv" ->
                      <<x.shape[1], stage.out, x.shape[3], x.shape[4]>>
                 [] stage.kind = "relu" -> x.shape
                 [] stage.kind = "pool" ->
                      <<x.shape[1], x.shape[2], x.shape[3] \div 2, x.shape[4] \div 2>>]

\* im = layer(im) with every stage overwriting the object it is given
ApplyLayer_in_place(stage, heap, im) ==
    [heap |-> [heap EXCEPT ![im] = StageValue(stage, heap[im])], im |-> im]

\* im = layer(im): a convolution and a pooling return a new tensor object,
\* ReLU(inplace=True) overwrites the object it is given and returns it
ApplyLayer(stage, heap, im) ==
    IF stage.kind = "relu"
    THEN [heap |-> [heap EXCEPT ![im] = StageValue(stage, heap[im])], im |-> im]
    ELSE [heap |-> Append(heap, StageValue(stage, heap[im])), im |-> Len(heap) + 1]

\* features[layers[name]] = im, when name is in layers
Record(features, name, im) ==
    IF name \in DOMAIN layers
    THEN [n \in DOMAIN features \cup {layers[name]} |->
            IF n = layers[name] THEN im ELSE features[n]]
    ELSE features

EmptyDict == [n \in {} |-> 0]

FeatIdle ==
    /\ f_image = [pix |-> 0, ops |-> <<>>, shape |-> <<>>]
    /\ f_heap = <<>>
    /\ f_im = 0
    /\ f_features = EmptyDict
    /\ f_pos = 0
    /\ f_log = <<>>
    /\ f_pc = "idle"

\* the call: features = {}, im = image
FeatInit ==
    /\ f_image \in Images
    /\ f_heap = <<f_image>>
    /\ f_im = 1
    /\ f_features = EmptyDict
    /\ f_pos = 0
    /\ f_log = <<>>
    /\ f_pc = "loop"

\* one pass of `for name, layer in model._modules.items()`
FeatStage ==
    /\ f_pc = "loop"
    /\ f_pos < Len(vgg)
    /\ LET stage == vgg[f_pos + 1]
           r == ApplyLayer(stage, f_heap, f_im)
       IN /\ f_heap' = r.heap
          /\ f_im' = r.im
          /\ f_features' = Record(f_features, stage.name, r.im)
          /\ f_log' = Append(f_log, stage.name)
    /\ f_pos' = f_pos + 1
    /\ UNCHANGED <<f_image, f_pc>>
    /\ UNCHANGED notFeat

\* return features
FeatReturn ==
    /\ f_pc = "loop"
    /\ f_pos = Len(vgg)
    /\ f_pc' = "returned"
    /\ UNCHANGED <<f_image, f_heap, f_im, f_features, f_pos, f_log>>
    /\ UNCHANGED notFeat

FeatNext == FeatStage \/ FeatReturn

TapNames == {"conv1_1", "conv2_1", "conv3_1", "conv4_1", "conv4_2", "conv5_1"}

\* C1: get_features applies every stage of the backbone exactly once, in the
\* backbone's order and with no early exit (stages 0..20 in this order, the
\* loop never returning earlier), and the returned bundle's key set is exactly
\* the tap map's set of names, one entry per tap-map entry.
C1_AllStagesAllTaps ==
    /\ f_pc \in {"loop", "returned"} =>
          /\ f_log = [k \in 1..f_pos |-> k - 1]
          /\ f_heap[f_im].ops = f_log
          /\ f_heap[f_im].pix = f_image.pix
    /\ f_pc = "returned" =>
          /\ f_log = [k \in 1..21 |-> k - 1]
          /\ DOMAIN f_features = TapNames
          /\ Cardinality(DOMAIN f_features) = 6

C1_Witness ==
    /\ f_pc = "returned"
    /\ Len(f_log) = 21
    /\ f_image.pix = 1
    /\ DOMAIN f_features = TapNames

\* the stage the tap map records under this name
StageOf(n) == CHOOSE k \in DOMAIN layers : layers[k] = n

\* C12: the entry of the bundle stored for a tap stage k holds the output of
\* stage k itself (the image with stages 0..k applied, and no other), during
\* the rest of the forward pass and in the bundle returned: no later stage
\* alters the recorded tensor.
C12_TapHoldsStageOutput ==
    f_pc \in {"loop", "returned"} =>
        \A n \in DOMAIN f_features :
            f_heap[f_features[n]].ops = [k \in 1..(StageOf(n) + 1) |-> k - 1]

-----------------------------------------------------------------------------
(* Rationals <<numerator, denominator>> in lowest terms, denominator > 0 *)

RECURSIVE GCD(_, _)
GCD(a, b) == IF b = 0 THEN a ELSE GCD(b, a % b)

Rat(n, d) ==
    LET g == GCD(Abs(n), d)
    IN <<n \div g, d \div g>>

RAdd(x, y) == Rat(x[1] * y[2] + y[1] * x[2], x[2] * y[2])

RMul(x, y) == Rat(x[1] * y[1], x[2] * y[2])

RZero == <<0, 1>>

-----------------------------------------------------------------------------
(* SpecLoss: get_total_loss(result_features). Each feature tensor is drawn *)
(* where the code reads it: result_features[layer], style_features[layer]  *)
(* and content_features[content_layer] are each read once in a call.       *)

\* torch.mean((a - b)**2) with the square left out
MeanDiff(a, b) ==
    Rat(SumSeq([k \in 1..Len(a.data) |-> a.data[k] - b.data[k]]), Len(a.data))

\* torch.mean((a - b)**2) of two tensors of one shape
MeanSq(a, b) ==
    Rat(SumSeq([k \in 1..Len(a.data) |-> (a.data[k] - b.data[k]) * (a.data[k] - b.data[k])]),
        Len(a.data))

\* style_weights, in the order of the dictionary; weights in tenths
style_weights ==
    << [layer |-> "conv1_1", weight |-> <<10, 10>>],
       [layer |-> "conv2_1", weight |-> <<8, 10>>],
       [layer |-> "conv3_1", weight |-> <<5, 10>>],
       [layer |-> "conv4_1", weight |-> <<3, 10>>],
       [layer |-> "conv5_1", weight |-> <<2, 10>>] >>

content_layer == "conv4_2"

content_weight == 1

style_weight == 1000000

\* one pass of the loop of get_style_loss: what it adds to style_loss
style_layer_term(result_feature, style_feature) ==
    LET dim == result_feature.shape[2]
        height == result_feature.shape[3]
        width == result_feature.shape[4]
        result_gram == gram_matrix(result_feature)
        style_gram == gram_matrix(style_feature)
        layer_style_loss == MeanSq(result_gram, style_gram)
    IN RMul(layer_style_loss, <<1, dim * height * width>>)

\* get_content_loss, given the two tensors it reads
get_content_loss(result_feature, content_feature) ==
    MeanSq(result_feature, content_feature)

\* the return of get_total_loss
total_loss(content_loss, style_loss) ==
    RAdd(RMul(<<content_weight, 1>>, content_loss),
         RMul(<<style_weight, 1>>, style_loss))

\* shapes [1, C, H, W] of the backbone's feature tensors: more than one
\* channel and more than one position
LossShapes ==
    {sh \in FeatureShapes(MaxElems) : sh[2] >= 2 /\ sh[3] * sh[4] >= 2}

\* activation number k (0-based) of tensor number seed of the enumeration
SampleDigit(seed, k) ==
    LET RECURSIVE Pow3(_)
        Pow3(e) == IF e = 0 THEN 1 ELSE 3 * Pow3(e - 1)
        d == (seed \div Pow3(k)) % 3
    IN IF d = 2 THEN -1 ELSE d

\* tensor number seed of a shape: the enumeration runs over the activations
\* position by position, channel after channel within a position
FeatureSample(shape, seed) ==
    LET c == shape[2]
        hw == shape[3] * shape[4]
    IN Tensor(shape,
              [i \in 1..(c * hw) |->
                  SampleDigit(seed, ((i - 1) % hw) * c + ((i - 1) \div hw))])

FeatureSamples(shape) == {FeatureSample(shape, seed) : seed \in 0..MaxSeed}

\* what the two loss functions compute from each pair of feature tensors of
\* a shape: the tensors differ or not (same), their Gram descriptors differ
\* or not (same_gram), get_content_loss' result, get_style_loss' addend and
\* the mean squared Gram difference over C*H*W (gram_term)
LossPairs ==
    [shape \in LossShapes |->
        {[same |-> (a = b),
          same_gram |-> (gram_matrix(a) = gram_matrix(b)),
          content_loss |-> get_content_loss(a, b),
          style_term |-> style_layer_term(a, b),
          gram_term |-> RMul(MeanSq(gram_matrix(a), gram_matrix(b)),
                             <<1, Prod(shape)>>)] :
            a \in FeatureSamples(shape), b \in FeatureSamples(shape)}]

LossIdle ==
    /\ s_shape = <<>>
    /\ s_content_loss = RZero
    /\ s_style_loss = RZero
    /\ s_total_loss = RZero
    /\ s_layer = 0
    /\ s_terms = <<>>
    /\ s_matched = TRUE
    /\ s_pc = "idle"

LossInit ==
    /\ s_shape \in LossShapes
    /\ s_content_loss = RZero
    /\ s_style_loss = RZero
    /\ s_total_loss = RZero
    /\ s_layer = 0
    /\ s_terms = <<>>
    /\ s_matched = TRUE
    /\ s_pc = "content"

\* content_loss = get_content_loss(result_features)
LossContent ==
    /\ s_pc = "content"
    /\ \E read \in LossPairs[s_shape] :
          /\ s_content_loss' = read.content_loss
          /\ s_matched' = read.same
    /\ s_pc' = "style"
    /\ UNCHANGED <<s_shape, s_style_loss, s_total_loss, s_layer, s_terms>>
    /\ UNCHANGED notLoss

\* one pass of `for layer in style_weights` (style_loss = 0 before the first)
LossStyleLayer ==
    /\ s_pc = "style"
    /\ s_layer < Len(style_weights)
    /\ \E read \in LossPairs[s_shape] :
          /\ s_style_loss' = RAdd(s_style_loss, read.style_term)
          /\ s_terms' = Append(s_terms, read.gram_term)
          /\ s_matched' = (s_matched /\ read.same_gram)
    /\ s_layer' = s_layer + 1
    /\ UNCHANGED <<s_shape, s_content_loss, s_total_loss, s_pc>>
    /\ UNCHANGED notLoss

\* return content_weight * content_loss + style_weight * style_loss
LossReturn ==
    /\ s_pc = "style"
    /\ s_layer = Len(style_weights)
    /\ s_total_loss' = total_loss(s_content_loss, s_style_loss)
    /\ s_pc' = "returned"
    /\ UNCHANGED <<s_shape, s_content_loss, s_style_loss, s_layer, s_terms, s_matched>>
    /\ UNCHANGED notLoss

LossNext == LossContent \/ LossStyleLayer \/ LossReturn

RECURSIVE WeightedSum(_, _)
WeightedSum(weights, terms) ==
    IF terms = <<>> THEN RZero
    ELSE RAdd(RMul(Head(weights).weight, Head(terms)),
              WeightedSum(Tail(weights), Tail(terms)))

\* C2: the style term is the sum over the weighted taps of
\* weight[tap] * (mean squared Gram difference of the tap) / (C*H*W).
C2_StyleWeightsApplied ==
    s_pc = "returned" => s_style_loss = WeightedSum(style_weights, s_terms)

\* C7: when the target feature equals the content feature at the content
\* tap and the target's Gram descriptor equals the style's at every weighted
\* tap, get_total_loss returns exactly 0; for every input it returns >= 0.
C7_ZeroWhenMatchedNonNegative ==
    s_pc = "returned" =>
        /\ s_matched => s_total_loss = RZero
        /\ s_total_loss[1] >= 0
        /\ s_total_loss[2] > 0

C7_Witness ==
    /\ s_pc = "returned"
    /\ s_matched
    /\ Len(s_terms) = 5
    /\ s_total_loss = RZero

-----------------------------------------------------------------------------
(* SpecRun: the notebook's cells in order. The image files, the backbone   *)
(* given to get_features, whether the style image is loaded with shape=,   *)
(* iterations and show_every are drawn; everything else is the notebook's. *)
(* A pixel tensor is one number (pix) and a shape. The gradient is known   *)
(* by its sign only, and Adam's step is one unit against the sign of its   *)
(* running average of the gradients.                                       *)

max_size == 400

\* get_features(image, model): the loop of FeatStage run to its end; the
\* bundle it returns (each name with the value its tensor object then holds)
\* and the value the argument's tensor object (the first of the heap) holds
RECURSIVE Forward(_, _, _, _, _)
Forward(model, pos, heap, im, features) ==
    IF pos = Len(model)
    THEN [features |-> [n \in DOMAIN features |-> heap[features[n]]],
          image |-> heap[1]]
    ELSE LET stage == model[pos + 1]
             r == ApplyLayer(stage, heap, im)
         IN Forward(model, pos + 1, r.heap, r.im, Record(features, stage.name, r.im))

get_features(image, model) == Forward(model, 0, <<image>>, 1, EmptyDict).features

\* the image given to get_features, after the call
get_features_argument(image, model) ==
    Forward(model, 0, <<image>>, 1, EmptyDict).image

\* shape of gram_matrix(tensor) for a tensor of this shape (<<"error">> for
\* the RuntimeError of matmul)
gram_shape(shape) ==
    LET flat == SelectSeq(<<shape[1], shape[2], shape[3] * shape[4]>>, LAMBDA d : d # 1)
    IN IF Len(flat) = 0 THEN <<"error">>
       ELSE IF Len(flat) = 1 THEN <<>>
       ELSE IF Len(flat) = 2 THEN <<flat[1], flat[1]>>
       ELSE <<"error">>

\* a - b of tensors of these shapes is defined (torch broadcasting: the
\* trailing dimensions are equal or one of them is 1)
Broadcastable(a, b) ==
    \A k \in 1..Min(Len(a), Len(b)) :
        LET x == a[Len(a) - k + 1]
            y == b[Len(b) - k + 1]
        IN x = y \/ x = 1 \/ y = 1

\* get_content_loss: "ok" or the exception raised
content_loss_outcome(result_features, content_features) ==
    IF content_layer \notin DOMAIN result_features
       \/ content_layer \notin DOMAIN content_features
    THEN "KeyError"
    ELSE IF ~Broadcastable(result_features[content_layer].shape,
                           content_features[content_layer].shape)
    THEN "RuntimeError"
    ELSE "ok"

\* get_style_loss: "ok" or the exception of the first layer that raises
RECURSIVE style_loss_outcome(_, _, _)
style_loss_outcome(result_features, style_features, k) ==
    IF k > Len(style_weights) THEN "ok"
    ELSE LET layer == style_weights[k].layer
         IN IF layer \notin DOMAIN result_features \/ layer \notin DOMAIN style_features
            THEN "KeyError"
            ELSE LET result_gram == gram_shape(result_features[layer].shape)
                     style_gram == gram_shape(style_features[layer].shape)
                 IN IF result_gram = <<"error">> \/ style_gram = <<"error">>
                       \/ ~Broadcastable(result_gram, style_gram)
                    THEN "RuntimeError"
                    ELSE style_loss_outcome(result_features, style_features, k + 1)

\* get_total_loss: the content loss is computed first, then the style loss
total_loss_outcome(result_features, content_features, style_features) ==
    LET c == content_loss_outcome(result_features, content_features)
    IN IF c # "ok" THEN c
       ELSE style_loss_outcome(result_features, style_features, 1)

NoGramCalls == [result |-> 0, style |-> 0]

\* get_style_loss: the calls of gram_matrix it makes from layer number k on,
\* on the result's features and on the style's, up to the return or raise
RECURSIVE style_loss_gram_calls(_, _, _)
style_loss_gram_calls(result_features, style_features, k) ==
    IF k > Len(style_weights) THEN NoGramCalls
    ELSE LET layer == style_weights[k].layer
         IN IF layer \notin DOMAIN result_features \/ layer \notin DOMAIN style_features
            THEN NoGramCalls
            ELSE LET result_gram == gram_shape(result_features[layer].shape)
                     style_gram == gram_shape(style_features[layer].shape)
                     rest == style_loss_gram_calls(result_features, style_features, k + 1)
                 IN IF result_gram = <<"error">> THEN [result |-> 1, style |-> 0]
                    ELSE IF style_gram = <<"error">> \/ ~Broadcastable(result_gram, style_gram)
                    THEN [result |-> 1, style |-> 1]
                    ELSE [result |-> 1 + rest.result, style |-> 1 + rest.style]

\* get_total_loss: the calls of gram_matrix it makes (none when
\* get_content_loss, which is called first, raises)
total_loss_gram_calls(result_features, content_features, style_features) ==
    IF content_loss_outcome(result_features, content_features) # "ok"
    THEN NoGramCalls
    ELSE style_loss_gram_calls(result_features, style_features, 1)

\* r_gram_calls after the calls of one get_total_loss
AddGramCalls(calls, more) ==
    [result |-> calls.result + more.result, style |-> calls.style + more.style]

Sign(x) == IF x > 0 THEN 1 ELSE IF x < 0 THEN -1 ELSE 0

\* signs the gradient of a squared-difference loss can have: none but 0
\* where the compared features are those of the same image
GradSigns(result_features, other_features) ==
    IF result_features = other_features THEN {0} ELSE {-1, 0, 1}

\* optimizer.zero_grad() leaving the gradient as it is
zero_grad_keeps(grad) == grad

\* optimizer.zero_grad(): the gradient of the optimizer's parameter after it
zero_grad(grad) == 0

\* total_loss.backward() with the two weights left out of the sum
total_loss_backward_unweighted(cw, sw, gc, gs) == Sign(gc + gs)

\* total_loss.backward(): the sign of the gradient of
\* content_weight * content_loss + style_weight * style_loss, from the
\* signs gc and gs of the gradients of the two losses
total_loss_backward(cw, sw, gc, gs) == Sign(cw * gc + sw * gs)

RECURSIVE Pow10(_)
Pow10(e) == IF e = 0 THEN 1 ELSE 10 * Pow10(e - 1)

\* optim.Adam([result_image], lr=lr) before its first step
NewAdam == [step |-> 0, exp_avg |-> 0]

\* optimizer.step() updating a copy of the parameter, not the parameter
AdamStep_on_copy(optimizer, param, grad) ==
    LET avg == 9 * optimizer.exp_avg + Pow10(optimizer.step) * grad
    IN [optimizer |-> [step |-> optimizer.step + 1, exp_avg |-> avg],
        param |-> param]

\* optimizer.step(): exp_avg = 0.9 * exp_avg + 0.1 * grad (kept times
\* 10^step), and the parameter moves one unit against the sign of exp_avg
AdamStep(optimizer, param, grad) ==
    LET avg == 9 * optimizer.exp_avg + Pow10(optimizer.step) * grad
    IN [optimizer |-> [step |-> optimizer.step + 1, exp_avg |-> avg],
        param |-> [param EXCEPT !.pix = param.pix - Sign(avg)]]

\* the tensors given to the optimizer: optim.Adam([result_image], lr=lr)
optimizer_params == {"result_image"}

\* vgg.requires_grad_(False)
vgg_requires_grad == FALSE

\* the backbone's parameters after optimizer.step(): the step changes the
\* tensors of its list that have a gradient
StepWeights(weights) ==
    IF "vgg" \in optimizer_params /\ vgg_requires_grad
    THEN {weights - 1, weights, weights + 1}
    ELSE {weights}

Clip(x, lo, hi) == IF x < lo THEN lo ELSE IF x > hi THEN hi ELSE x

\* image_convert working on the tensor itself instead of a clone
image_convert_in_place(tensor) ==
    [image |-> Clip(tensor.pix, 0, MaxPix),
     tensor |-> [tensor EXCEPT !.pix = Clip(tensor.pix, 0, MaxPix)]]

\* image_convert(tensor): the image it returns (the clone, clipped to the
\* range of pixel values) and the argument tensor after the call
image_convert(tensor) ==
    [image |-> Clip(tensor.pix, 0, MaxPix), tensor |-> tensor]

\* range(1, iterations + 1) ending one iteration early
loop_continues_short(ii, iterations) == ii + 1 < iterations

\* `for ii in range(1, iterations + 1)` has a next value after ii
loop_continues(ii, iterations) == ii < iterations

FileSizes == {<<32, 32>>, <<32, 48>>}

\* the values given to style_weight: the notebook's, and none
StyleWeights == {0, style_weight}

Backbones == {vgg, SubSeq(vgg, 1, 16), SubSeq(vgg, 1, 13)}

NoImage == [pix |-> 0, ops |-> <<>>, shape |-> <<>>]

NoLoss == [at |-> NoImage, ii |-> 0]

RunIdle ==
    /\ r_cfg = [model |-> <<>>, content_file |-> NoImage, style_file |-> NoImage,
                style_shape_given |-> TRUE, iterations |-> 0, show_every |-> 1,
                content_weight |-> content_weight, style_weight |-> style_weight]
    /\ r_content_image = NoImage
    /\ r_style_image = NoImage
    /\ r_content_features = EmptyDict
    /\ r_style_features = EmptyDict
    /\ r_style_gram = EmptyDict
    /\ r_result_image = NoImage
    /\ r_grad = 0
    /\ r_optimizer = NewAdam
    /\ r_result_features = EmptyDict
    /\ r_total_loss = NoLoss
    /\ r_ii = 0
    /\ r_pc = "idle"
    /\ r_error = "none"
    /\ r_out = <<>>
    /\ r_count = [forward |-> 0, loss |-> 0, step |-> 0]
    /\ r_gram_calls = [result |-> 0, style |-> 0]
    /\ r_vgg_weights = 0

\* an image file: its pixels and its PIL size (width, height)
ImageFiles ==
    {[pix |-> p, ops |-> <<>>, shape |-> sz] : p \in 0..MaxPix, sz \in FileSizes}

RunInit ==
    /\ r_cfg \in [model : Backbones,
                  content_file : ImageFiles,
                  style_file : ImageFiles,
                  style_shape_given : BOOLEAN,
                  iterations : 0..MaxIterations,
                  show_every : 1..MaxShowEvery,
                  content_weight : {content_weight},
                  style_weight : StyleWeights]
    /\ r_content_image = NoImage
    /\ r_style_image = NoImage
    /\ r_content_features = EmptyDict
    /\ r_style_features = EmptyDict
    /\ r_style_gram = EmptyDict
    /\ r_result_image = NoImage
    /\ r_grad = 0
    /\ r_optimizer = NewAdam
    /\ r_result_features = EmptyDict
    /\ r_total_loss = NoLoss
    /\ r_ii = 0
    /\ r_pc = "load"
    /\ r_error = "none"
    /\ r_out = <<>>
    /\ r_count = [forward |-> 0, loss |-> 0, step |-> 0]
    /\ r_gram_calls = [result |-> 0, style |-> 0]
    /\ r_vgg_weights = 0

\* content_image = load_image(content_file_path, max_size=max_size)
\* style_image = load_image(style_file_path, shape=content_image.shape[-2:])
RunLoad ==
    /\ r_pc = "load"
    /\ LET c == r_cfg.content_file
           s == r_cfg.style_file
           content_shape == load_image(c.shape[1], c.shape[2], max_size, None)
           shape == IF r_cfg.style_shape_given
                    THEN SubSeq(content_shape, 3, 4)
                    ELSE None
       IN /\ r_content_image' = [pix |-> c.pix, ops |-> <<>>, shape |-> content_shape]
          /\ r_style_image' =
                [pix |-> s.pix, ops |-> <<>>,
                 shape |-> load_image(s.shape[1], s.shape[2], max_size, shape)]
    /\ r_pc' = "features"
    /\ UNCHANGED <<r_cfg, r_content_features, r_style_features, r_style_gram,
                   r_result_image, r_grad, r_optimizer, r_result_features,
                   r_total_loss, r_ii, r_error, r_out, r_count>>
    /\ UNCHANGED <<r_gram_calls, r_vgg_weights>>
    /\ UNCHANGED notRun

\* content_features, style_features = get_features(...), and style_gram
RunInitialFeatures ==
    /\ r_pc = "features"
    /\ LET cf == get_features(r_content_image, r_cfg.model)
           sf == get_features(r_style_image, r_cfg.model)
       IN /\ r_content_features' = cf
          /\ r_style_features' = sf
          /\ r_style_gram' = [layer \in DOMAIN sf |-> gram_shape(sf[layer].shape)]
          /\ r_gram_calls' =
                [r_gram_calls EXCEPT !.style = @ + Cardinality(DOMAIN sf)]
    /\ r_content_image' = get_features_argument(r_content_image, r_cfg.model)
    /\ r_style_image' = get_features_argument(r_style_image, r_cfg.model)
    /\ r_count' = [r_count EXCEPT !.forward = @ + 2]
    /\ r_pc' = "result"
    /\ UNCHANGED <<r_cfg, r_result_image, r_grad,
                   r_optimizer, r_result_features, r_total_loss, r_ii, r_error, r_out>>
    /\ UNCHANGED r_vgg_weights
    /\ UNCHANGED notRun

\* result_image = content_image.clone().requires_grad_(True); the optimizer
RunInitResult ==
    /\ r_pc = "result"
    /\ r_result_image' = r_content_image
    /\ r_grad' = 0
    /\ r_optimizer' = NewAdam
    /\ r_pc' = "for"
    /\ UNCHANGED <<r_cfg, r_content_image, r_style_image, r_content_features,
                   r_style_features, r_style_gram, r_result_features,
                   r_total_loss, r_ii, r_error, r_out, r_count>>
    /\ UNCHANGED <<r_gram_calls, r_vgg_weights>>
    /\ UNCHANGED notRun

\* for ii in range(1, iterations + 1): the next value of ii
RunFor ==
    /\ r_pc = "for"
    /\ loop_continues(r_ii, r_cfg.iterations)
    /\ r_ii' = r_ii + 1
    /\ r_pc' = "get_features"
    /\ UNCHANGED <<r_cfg, r_content_image, r_style_image, r_content_features,
                   r_style_features, r_style_gram, r_result_image, r_grad,
                   r_optimizer, r_result_features, r_total_loss, r_error, r_out,
                   r_count>>
    /\ UNCHANGED <<r_gram_calls, r_vgg_weights>>
    /\ UNCHANGED notRun

\* the range is exhausted: the loop is over
RunDone ==
    /\ r_pc = "for"
    /\ ~loop_continues(r_ii, r_cfg.iterations)
    /\ r_pc' = "DONE"
    /\ UNCHANGED <<r_cfg, r_content_image, r_style_image, r_content_features,
                   r_style_features, r_style_gram, r_result_image, r_grad,
                   r_optimizer, r_result_features, r_total_loss, r_ii, r_error,
                   r_out, r_count>>
    /\ UNCHANGED <<r_gram_calls, r_vgg_weights>>
    /\ UNCHANGED notRun

\* result_features = get_features(result_image, vgg)
RunGetFeatures ==
    /\ r_pc = "get_features"
    /\ r_result_features' = get_features(r_result_image, r_cfg.model)
    /\ r_result_image' = get_features_argument(r_result_image, r_cfg.model)
    /\ r_count' = [r_count EXCEPT !.forward = @ + 1]
    /\ r_pc' = "get_total_loss"
    /\ UNCHANGED <<r_cfg, r_content_image, r_style_image, r_content_features,
                   r_style_features, r_style_gram, r_grad,
                   r_optimizer, r_total_loss, r_ii, r_error, r_out>>
    /\ UNCHANGED <<r_gram_calls, r_vgg_weights>>
    /\ UNCHANGED notRun

\* total_loss = get_total_loss(result_features)
RunTotalLoss ==
    /\ r_pc = "get_total_loss"
    /\ total_loss_outcome(r_result_features, r_content_features, r_style_features) = "ok"
    /\ r_total_loss' = [at |-> r_result_image, ii |-> r_ii]
    /\ r_count' = [r_count EXCEPT !.loss = @ + 1]
    /\ r_gram_calls' =
          AddGramCalls(r_gram_calls,
                       total_loss_gram_calls(r_result_features, r_content_features,
                                             r_style_features))
    /\ r_pc' = "zero_grad"
    /\ UNCHANGED <<r_cfg, r_content_image, r_style_image, r_content_features,
                   r_style_features, r_style_gram, r_result_image, r_grad,
                   r_optimizer, r_result_features, r_ii, r_error, r_out>>
    /\ UNCHANGED r_vgg_weights
    /\ UNCHANGED notRun

\* get_total_loss raises: the exception ends the run
RunTotalLossRaises ==
    /\ r_pc = "get_total_loss"
    /\ total_loss_outcome(r_result_features, r_content_features, r_style_features) # "ok"
    /\ r_error' =
          total_loss_outcome(r_result_features, r_content_features, r_style_features)
    /\ r_gram_calls' =
          AddGramCalls(r_gram_calls,
                       total_loss_gram_calls(r_result_features, r_content_features,
                                             r_style_features))
    /\ r_pc' = "failed"
    /\ UNCHANGED <<r_cfg, r_content_image, r_style_image, r_content_features,
                   r_style_features, r_style_gram, r_result_image, r_grad,
                   r_optimizer, r_result_features, r_total_loss, r_ii, r_out, r_count>>
    /\ UNCHANGED r_vgg_weights
    /\ UNCHANGED notRun

\* optimizer.zero_grad()
RunZeroGrad ==
    /\ r_pc = "zero_grad"
    /\ r_grad' = zero_grad(r_grad)
    /\ r_pc' = "backward"
    /\ UNCHANGED <<r_cfg, r_content_image, r_style_image, r_content_features,
                   r_style_features, r_style_gram, r_result_image, r_optimizer,
                   r_result_features, r_total_loss, r_ii, r_error, r_out, r_count>>
    /\ UNCHANGED <<r_gram_calls, r_vgg_weights>>
    /\ UNCHANGED notRun

\* total_loss.backward(): the gradient is added to result_image.grad
RunBackward ==
    /\ r_pc = "backward"
    /\ \E gc \in GradSigns(r_result_features, r_content_features),
          gs \in GradSigns(r_result_features, r_style_features) :
          r_grad' = r_grad + total_loss_backward(r_cfg.content_weight,
                                                 r_cfg.style_weight, gc, gs)
    /\ r_pc' = "step"
    /\ UNCHANGED <<r_cfg, r_content_image, r_style_image, r_content_features,
                   r_style_features, r_style_gram, r_result_image, r_optimizer,
                   r_result_features, r_total_loss, r_ii, r_error, r_out, r_count>>
    /\ UNCHANGED <<r_gram_calls, r_vgg_weights>>
    /\ UNCHANGED notRun

\* optimizer.step()
RunStep ==
    /\ r_pc = "step"
    /\ LET r == AdamStep(r_optimizer, r_result_image, r_grad)
       IN /\ r_optimizer' = r.optimizer
          /\ r_result_image' = r.param
    /\ r_vgg_weights' \in StepWeights(r_vgg_weights)
    /\ r_count' = [r_count EXCEPT !.step = @ + 1]
    /\ r_pc' = "show"
    /\ UNCHANGED <<r_cfg, r_content_image, r_style_image, r_content_features,
                   r_style_features, r_style_gram, r_grad, r_result_features,
                   r_total_loss, r_ii, r_error, r_out>>
    /\ UNCHANGED r_gram_calls
    /\ UNCHANGED notRun

\* if ii % show_every == 0: print the loss, show image_convert(result_image)
RunShow ==
    /\ r_pc = "show"
    /\ r_ii % r_cfg.show_every = 0
    /\ LET r == image_convert(r_result_image)
       IN /\ r_out' = Append(r_out, [ii |-> r_ii, loss |-> r_total_loss, image |-> r.image])
          /\ r_result_image' = r.tensor
    /\ r_pc' = "for"
    /\ UNCHANGED <<r_cfg, r_content_image, r_style_image, r_content_features,
                   r_style_features, r_style_gram, r_grad, r_optimizer,
                   r_result_features, r_total_loss, r_ii, r_error, r_count>>
    /\ UNCHANGED <<r_gram_calls, r_vgg_weights>>
    /\ UNCHANGED notRun

\* the condition of the report is false
RunNoShow ==
    /\ r_pc = "show"
    /\ r_ii % r_cfg.show_every # 0
    /\ r_pc' = "for"
    /\ UNCHANGED <<r_cfg, r_content_image, r_style_image, r_content_features,
                   r_style_features, r_style_gram, r_result_image, r_grad,
                   r_optimizer, r_result_features, r_total_loss, r_ii, r_error,
                   r_out, r_count>>
    /\ UNCHANGED <<r_gram_calls, r_vgg_weights>>
    /\ UNCHANGED notRun

RunNext ==
    \/ RunLoad
    \/ RunInitialFeatures
    \/ RunInitResult
    \/ RunFor
    \/ RunDone
    \/ RunGetFeatures
    \/ RunTotalLoss
    \/ RunTotalLossRaises
    \/ RunZeroGrad
    \/ RunBackward
    \/ RunStep
    \/ RunShow
    \/ RunNoShow

StageNames(model) == {model[k].name : k \in 1..Len(model)}

LayerNames == {layers[k] : k \in DOMAIN layers}

\* the tap map names a stage the backbone does not have, or a style layer
\* or the content layer is no name of the tap map
ConfigInvalid ==
    \/ \E k \in DOMAIN layers : k \notin StageNames(r_cfg.model)
    \/ \E k \in 1..Len(style_weights) : style_weights[k].layer \notin LayerNames
    \/ content_layer \notin LayerNames

\* C3: with such a configuration the run stops with its error before the
\* first iteration begins and before any forward pass through the backbone
\* has executed: where the run has failed, no forward pass has run and no
\* iteration has begun (it never fails inside an iteration, after a forward
\* pass).
C3_ConfigErrorBeforeForward ==
    (ConfigInvalid /\ r_pc = "failed") =>
        /\ r_count.forward = 0
        /\ r_ii = 0

ImagesLoaded == r_pc \notin {"idle", "load"}

ShapeMismatch ==
    SubSeq(r_content_image.shape, 3, 4) # SubSeq(r_style_image.shape, 3, 4)

\* C4: when the content tensor and the style tensor differ in height or
\* width, the run fails before or at the first loss evaluation: it never
\* completes a loss evaluation and an optimizer step.
C4_ShapeMismatchFails ==
    (ImagesLoaded /\ ShapeMismatch) =>
        ~(r_count.loss >= 1 /\ r_count.step >= 1)

LoopBody ==
    {"get_features", "get_total_loss", "zero_grad", "backward", "step", "show",
     "failed"}

\* C5: the loop performs exactly `iterations` iterations, each with one
\* feature extraction, one loss evaluation and one optimizer step (at the
\* head of the loop these have happened ii times, ii <= iterations), for
\* every iterations >= 0; DONE is reached only after iteration `iterations`
\* and is never left.
C5_ExactlyIterations ==
    /\ [](r_pc \in {"for", "DONE"} =>
            /\ r_ii <= r_cfg.iterations
            /\ r_count = [forward |-> 2 + r_ii, loss |-> r_ii, step |-> r_ii])
    /\ [](r_pc \in LoopBody => (1 <= r_ii /\ r_ii <= r_cfg.iterations))
    /\ [](r_pc = "DONE" => r_ii = r_cfg.iterations)
    /\ [][r_pc = "DONE" => r_pc' = "DONE"]_vars

C5_Witness ==
    /\ r_pc = "DONE"
    /\ r_cfg.iterations = 2
    /\ r_count = [forward |-> 4, loss |-> 2, step |-> 2]

\* the number of iterations whose report, if due, has been made
IterationsShown == IF r_pc \in LoopBody THEN r_ii - 1 ELSE r_ii

\* C6: reports are made exactly at the iterations ii with
\* ii % show_every = 0, and the report step leaves the target image, its
\* gradient, the optimizer state and the iteration counter as they were
\* (as it leaves everything else but the output).
C6_ReportExactlyAndFrame ==
    /\ [](r_pc # "idle" =>
            /\ Len(r_out) = IterationsShown \div r_cfg.show_every
            /\ \A k \in 1..Len(r_out) : r_out[k].ii = k * r_cfg.show_every)
    /\ [][r_pc = "show" =>
            UNCHANGED <<r_result_image, r_grad, r_optimizer, r_ii, r_total_loss,
                        r_result_features, r_content_features, r_style_features,
                        r_count>>]_vars

\* a report of a target image whose pixels lie outside the range shown
C6_Witness ==
    /\ r_pc = "for"
    /\ Len(r_out) >= 1
    /\ r_out[Len(r_out)].ii = r_ii
    /\ r_result_image.pix < 0
    /\ r_out[Len(r_out)].image = 0

\* C11: with content_weight = 1 and style_weight = 0, from the target's
\* initialization on (a copy of the content tensor) the target equals the
\* content tensor after any number of iterations: the gradient is zero at
\* every iteration and no optimizer step moves the target.
C11_ContentOnlyKeepsTarget ==
    (/\ r_cfg.content_weight = 1
     /\ r_cfg.style_weight = 0
     /\ r_pc \notin {"idle", "load", "features", "result"}) =>
        /\ r_result_image = r_content_image
        /\ r_grad = 0
        /\ r_optimizer.exp_avg = 0

\* two iterations done with a style image that differs from the content image
C11_Witness ==
    /\ r_cfg.content_weight = 1
    /\ r_cfg.style_weight = 0
    /\ r_pc = "DONE"
    /\ r_count.step = 2
    /\ r_style_features # r_content_features
    /\ r_result_image = r_content_image

\* C13: within every iteration the steps occur in the order feature
\* extraction, loss evaluation, clearing of the gradient, backpropagation,
\* optimizer step; iteration k+1 starts (from the head of the loop) only
\* after iteration k's optimizer step; and the gradient is zero when
\* backpropagation starts, so the gradient an optimizer step consumes is the
\* one gradient of its own iteration's loss.
C13_IterationOrder ==
    /\ [][/\ r_pc = "get_features" => r_pc' = "get_total_loss"
          /\ r_pc = "get_total_loss" => r_pc' \in {"zero_grad", "failed"}
          /\ r_pc = "zero_grad" => (r_pc' = "backward" /\ r_grad' = 0)
          /\ r_pc = "backward" => (r_pc' = "step" /\ r_grad = 0)
          /\ r_pc = "step" =>
                /\ r_pc' = "show"
                /\ r_optimizer'.exp_avg =
                      9 * r_optimizer.exp_avg + Pow10(r_optimizer.step) * r_grad
          /\ r_pc' = "get_features" => (r_pc = "for" /\ r_ii' = r_ii + 1)]_vars
    /\ [](r_pc = "get_features" =>
            r_count = [forward |-> r_ii + 1, loss |-> r_ii - 1, step |-> r_ii - 1])
    /\ [](r_pc = "get_total_loss" =>
            r_count = [forward |-> r_ii + 2, loss |-> r_ii - 1, step |-> r_ii - 1])
    /\ [](r_pc \in {"zero_grad", "backward", "step"} =>
            r_count = [forward |-> r_ii + 2, loss |-> r_ii, step |-> r_ii - 1])
    /\ [](r_pc = "step" => r_grad \in {-1, 0, 1})
    /\ [](r_optimizer.step = r_count.step)

\* the second iteration's step is about to consume a gradient of 1 after a
\* first iteration whose gradient was 1 too
C13_Witness ==
    /\ r_pc = "step"
    /\ r_ii = 2
    /\ r_grad = 1
    /\ r_optimizer = [step |-> 1, exp_avg |-> 1]

\* C14: the style image's Gram descriptor is computed exactly once for each
\* tap, before the loop, and never again: from the cached descriptors on,
\* gram_matrix has been called on style features once a tap of the style
\* bundle, and on the target's features once a weighted tap for every loss
\* evaluation.
C14_StyleGramOnce ==
    r_pc \in {"result", "for", "get_features", "get_total_loss", "zero_grad",
              "backward", "step", "show", "DONE"} =>
        /\ r_gram_calls.style = Cardinality(DOMAIN r_style_features)
        /\ r_gram_calls.result = Len(style_weights) * r_count.loss

\* the positions of the loop: its head and the steps of an iteration
LoopSteps ==
    {"for", "get_features", "get_total_loss", "zero_grad", "backward", "step",
     "show"}

\* C15: the target image starts the loop as a copy of the content tensor and
\* only the optimizer step changes its values (feature extraction, loss
\* evaluation, gradient clearing, backpropagation and reporting leave it as
\* it is; it stays an image of the content's shape), and no step of the loop
\* changes the backbone or its weights, the content image, the content
\* feature bundle or the style feature bundle.
C15_TargetAndFrame ==
    /\ []((r_pc = "for" /\ r_ii = 0) => r_result_image = r_content_image)
    /\ [](r_pc \in LoopSteps \cup {"DONE", "failed"} =>
            /\ r_result_image.shape = r_content_image.shape
            /\ r_result_image.ops = <<>>)
    /\ [][(r_pc \in LoopSteps \ {"step"}) => UNCHANGED r_result_image]_vars
    /\ [][(r_pc \in LoopSteps) =>
            UNCHANGED <<r_vgg_weights, r_cfg, r_content_image, r_content_features,
                        r_style_features>>]_vars

\* a finished run of two iterations whose steps moved the target, with a report
C15_Witness ==
    /\ r_pc = "DONE"
    /\ r_count.step = 2
    /\ Len(r_out) >= 1
    /\ r_result_image.pix # r_content_image.pix
    /\ r_vgg_weights = 0

\* C16: the loss an iteration holds when its optimizer step runs is the loss
\* of the target as it is before that step; a report prints this loss and
\* shows the target as it is after the step (clipped to the pixel range); so
\* after a step that moves the target (Adam's running average is not zero),
\* the loss about to be reported and the target about to be shown belong to
\* two different target states.
C16_LossBeforeSnapshotAfter ==
    /\ [][r_pc = "step" =>
            /\ r_total_loss = [at |-> r_result_image, ii |-> r_ii]
            /\ UNCHANGED r_total_loss]_vars
    /\ [][(r_pc = "show" /\ r_ii % r_cfg.show_every = 0) =>
            /\ r_out' = Append(r_out, r_out'[Len(r_out')])
            /\ r_out'[Len(r_out')].ii = r_ii
            /\ r_out'[Len(r_out')].loss = r_total_loss
            /\ r_out'[Len(r_out')].image =
                  IF r_result_image.pix < 0 THEN 0
                  ELSE IF r_result_image.pix > MaxPix THEN MaxPix
                  ELSE r_result_image.pix]_vars
    /\ []((r_pc = "show" /\ r_optimizer.exp_avg # 0) =>
            /\ r_total_loss.ii = r_ii
            /\ r_total_loss.at # r_result_image)

\* a report whose loss is that of the target before the step (pixels 1)
\* and whose snapshot is the target after it (pixels 0)
C16_Witness ==
    /\ r_pc = "for"
    /\ Len(r_out) >= 1
    /\ r_out[Len(r_out)].ii = r_ii
    /\ r_out[Len(r_out)].loss.at.pix = 1
    /\ r_out[Len(r_out)].image = 0
    /\ r_result_image.pix = 0

-----------------------------------------------------------------------------
(* Specifications *)

InitGram == GramInit /\ LoadIdle /\ FeatIdle /\ LossIdle /\ RunIdle

SpecGram == InitGram /\ [][GramNext]_vars

InitLoad == LoadInit /\ GramIdle /\ FeatIdle /\ LossIdle /\ RunIdle

SpecLoad == InitLoad /\ [][LoadNext]_vars

InitFeat == FeatInit /\ GramIdle /\ LoadIdle /\ LossIdle /\ RunIdle

SpecFeat == InitFeat /\ [][FeatNext]_vars

InitLoss == LossInit /\ GramIdle /\ LoadIdle /\ FeatIdle /\ RunIdle

SpecLoss == InitLoss /\ [][LossNext]_vars

InitRun == RunInit /\ GramIdle /\ LoadIdle /\ FeatIdle /\ LossIdle

SpecRun == InitRun /\ [][RunNext]_vars

=============================================================================
